---------------------------- MODULE Spec2Model ----------------------------
(***************************************************************************)
(* Powder-metallurgy compaction tonnage calculator (src/Compressor.py).    *)
(*                                                                         *)
(* The program is a Streamlit script: every change of an input widget      *)
(* re-runs the whole script top to bottom, which reads the widgets,        *)
(* computes D, P_MPa, area_m2, F_N, the tonnages, the two plotted curves   *)
(* and the CSV export.  One action of the model is one widget change       *)
(* followed by that complete re-run.                                       *)
(*                                                                         *)
(* Numbers.  The script computes in IEEE doubles.  The model computes in   *)
(* decimal fixed point, every quantity an integer count of its quantum,    *)
(* every operation rounded to the nearest quantum (as a double operation   *)
(* is rounded to the nearest double):                                      *)
(*     D, log_term, A0        1e-4                                         *)
(*     K                      1e-5  MPa^-1                                 *)
(*     rho_*                  1     kg/m^3                                 *)
(*     outer/inner diameter   1     mm                                     *)
(*     safety factor          0.01                                         *)
(*     pressure               1e-3  MPa                                    *)
(*     area                   1e-8  m^2                                    *)
(*     force                  0.01  N                                      *)
(*     tonnage                1e-5  t                                      *)
(* A computed double is a pair <<tag, n>>: <<"fin", n>> a finite number,   *)
(* <<"nan", 0>>, <<"inf", 1>>, <<"inf", -1>>; <<"none", 0>> stands for an  *)
(* output the run did not produce.                                         *)
(***************************************************************************)
EXTENDS Integers, Sequences, FiniteSets

VARIABLES
    material_choice,   \* sidebar selectbox                       (line 46)
    K,                 \* number_input K                          (line 53)
    A0,                \* number_input A0                         (line 54)
    rho_theoretical,   \* number_input rho_th                     (line 55)
    shape,             \* selectbox "Part shape"                  (line 68)
    outer_d_mm,        \* number_input outer diameter             (line 69)
    inner_widget,      \* state of the inner-diameter number_input (line 70)
    dens_type,         \* selectbox "Density input"               (line 73)
    rho_green,         \* number_input rho_green                  (line 75)
    D_widget,          \* number_input relative density           (line 78)
    SF,                \* number_input safety factor              (line 80)
    error,             \* "none", or the exception that ended the run
    inner_d_mm,        \* inner diameter the run used             (line 70)
    D,                 \* resolved relative density               (lines 76, 78)
    P_MPa,             \* line 86
    area_m2,           \* line 87
    F_N,               \* line 88
    tons_no_SF,        \* line 89
    tons_with_SF,      \* line 90
    P_vals,            \* line 113
    T_vals,            \* line 114
    csv_data           \* rows of the CSV export                  (lines 130-141)

inputs == <<material_choice, K, A0, rho_theoretical, shape, outer_d_mm,
            inner_widget, dens_type, rho_green, D_widget, SF>>
outputs == <<error, inner_d_mm, D, P_MPa, area_m2, F_N, tons_no_SF,
             tons_with_SF, P_vals, T_vals, csv_data>>
vars == <<inputs, outputs>>

----------------------------------------------------------------------------
(* Quanta of the fixed-point representation.                               *)

D_SCALE == 10000          \* quanta per unit of D, log_term and A0
K_SCALE == 100000         \* quanta per MPa^-1 of K
P_SCALE == 1000           \* quanta per MPa of pressure
SAFETY_SCALE == 100           \* quanta per unit of safety factor
AREA_PER_MM2 == 100       \* area quanta (1e-8 m^2) per mm^2: the factor 1e-6 of line 87
TONS_SCALE == 100000      \* quanta per metric ton
FORCE_QUANTA == 1000000000  \* (pressure quanta per MPa) * (area quanta per m^2) / (force quanta per N)

----------------------------------------------------------------------------
(* Program constants.                                                      *)

N_PER_TONF == 980665      \* 9806.65 N, in force quanta of 0.01 N
MPA_TO_PA == 1000000
PI_4 == 7854              \* np.pi / 4.0 = 0.7854, in quanta of 1e-4
LN_2 == 6931              \* ln 2, in quanta of 1e-4, used by np.log's model

WC == "Tungsten Carbide (WC-Co, example)"
FE == "Iron (Fe, example)"
CUSTOM == "Custom (enter your constants)"

(* None is written 0: lines 49-51 test the entry's truthiness, and None    *)
(* and 0 take the same branch.                                             *)
DEFAULT_MATERIALS ==
    [m \in {WC, FE, CUSTOM} |->
        CASE m = WC -> [K |-> 196, A0 |-> 3570, rho_theoretical |-> 15500]
          [] m = FE -> [K |-> 210, A0 |-> 2500, rho_theoretical |-> 7870]
          [] OTHER  -> [K |-> 0, A0 |-> 0, rho_theoretical |-> 0]]

K_default(m) ==
    IF DEFAULT_MATERIALS[m].K # 0 THEN DEFAULT_MATERIALS[m].K ELSE 150
A0_default(m) ==
    IF DEFAULT_MATERIALS[m].A0 # 0 THEN DEFAULT_MATERIALS[m].A0 ELSE 3000
rho_th_default(m) ==
    IF DEFAULT_MATERIALS[m].rho_theoretical # 0
    THEN DEFAULT_MATERIALS[m].rho_theoretical ELSE 8000

SOLID == "Solid Cylinder"
HOLLOW == "Hollow Cylinder"
GREEN == "Green density (kg/m3)"
RELATIVE == "Relative density D"

OUTER_DEFAULT == 10
OUTER_MIN_TENTHS == 1     \* min_value=0.1 mm, in tenths of a mm
INNER_DEFAULT == 5
INNER_MIN == 0
RHO_GREEN_DEFAULT == 10000
RHO_GREEN_MIN == 1
D_DEFAULT == 6500
D_WIDGET_MIN == 100
D_WIDGET_MAX == 9990
SAFETY_DEFAULT == 120
SAFETY_MIN == 100
SAFETY_MAX == 300

CURVE_START == 500        \* np.linspace(0.05, 0.95, 300)
CURVE_STOP == 9500
N_POINTS == 300

----------------------------------------------------------------------------
(* Doubles.                                                                *)

Fin(n) == <<"fin", n>>
NaN == <<"nan", 0>>
Inf(s) == <<"inf", s>>
NoValue == <<"none", 0>>

IsFin(x) == x[1] = "fin"
IsNaN(x) == x[1] = "nan"
IsInf(x) == x[1] = "inf"

Abs(n) == IF n < 0 THEN -n ELSE n
Sgn(n) == IF n < 0 THEN -1 ELSE IF n > 0 THEN 1 ELSE 0

(* IEEE ==: a NaN equals nothing, itself included.                         *)
FloatEq(x, y) == ~IsNaN(x) /\ ~IsNaN(y) /\ x = y

(* IEEE < on doubles.                                                      *)
FloatLess(x, y) ==
    /\ ~IsNaN(x) /\ ~IsNaN(y)
    /\ \/ IsFin(x) /\ IsFin(y) /\ x[2] < y[2]
       \/ IsInf(x) /\ x[2] < 0 /\ ~(IsInf(y) /\ y[2] < 0)
       \/ IsInf(y) /\ y[2] > 0 /\ ~(IsInf(x) /\ x[2] > 0)

(* a/b rounded to the nearest integer, halves away from zero; b # 0.       *)
RDiv(a, b) ==
    LET n == Abs(a)
        d == Abs(b)
        q == n \div d
        r == n % d
        m == IF 2 * r >= d THEN q + 1 ELSE q
    IN  Sgn(a) * Sgn(b) * m

(* <<quotient, remainder>> of a*b by c for a, b >= 0 < c, computed without *)
(* forming a*b (which exceeds 32-bit integers):     *)
(* long multiplication over the base-16 digits of b.                       *)
RECURSIVE MulDivQR(_, _, _)
MulDivQR(a, b, c) ==
    IF b = 0 THEN <<0, 0>>
    ELSE LET h == MulDivQR(a, b \div 16, c)
             d == b % 16
             r == 16 * h[2] + d * (a % c)
         IN  <<16 * h[1] + d * (a \div c) + (r \div c), r % c>>

(* a*b/c rounded to the nearest integer, halves away from zero; c > 0.     *)
MulDiv(a, b, c) ==
    LET x == Abs(a)
        y == Abs(b)
        qr == IF x >= y THEN MulDivQR(x, y, c) ELSE MulDivQR(y, x, c)
        m == IF 2 * qr[2] >= c THEN qr[1] + 1 ELSE qr[1]
    IN  Sgn(a) * Sgn(b) * m

(* The double x times the finite n/c (c > 0): inf * 0 and nan * n are nan. *)
FloatMulDiv(x, n, c) ==
    CASE IsNaN(x) -> NaN
      [] IsInf(x) -> IF n = 0 THEN NaN ELSE Inf(x[2] * Sgn(n))
      [] OTHER -> Fin(MulDiv(x[2], n, c))

----------------------------------------------------------------------------
(* The computations of lines 70-90.                                        *)

(* Line 70 without its else-branch: the widget's value for any shape.      *)
InnerUsed_AnyShape(shp, inner) == inner

(* Line 70: the inner-diameter widget is read only for a hollow part.      *)
InnerUsed(shp, inner) == IF shp = HOLLOW THEN inner ELSE 0

(* Line 76 with the quotient inverted.                                     *)
ResolveD_Inverted(dt, rg, rth, dw) ==
    IF dt = GREEN THEN RDiv(rth * D_SCALE, rg) ELSE dw

(* Lines 74-78: rho_green / rho_theoretical (rho_theoretical # 0), or the  *)
(* relative-density widget as it is.                                       *)
ResolveD(dt, rg, rth, dw) ==
    IF dt = GREEN THEN RDiv(rg * D_SCALE, rth) ELSE dw

(* ln of m/D_SCALE for m in [D_SCALE, 2*D_SCALE): 2*atanh((m-1)/(m+1)) by  *)
(* its series up to the 7th power.                                         *)
LnMantissa(m) ==
    LET z == RDiv((m - D_SCALE) * D_SCALE, m + D_SCALE)
        z2 == RDiv(z * z, D_SCALE)
        z3 == RDiv(z * z2, D_SCALE)
        z5 == RDiv(z3 * z2, D_SCALE)
        z7 == RDiv(z5 * z2, D_SCALE)
    IN  2 * (z + RDiv(z3, 3) + RDiv(z5, 5) + RDiv(z7, 7))

(* ln of x/D_SCALE, x > 0: x = m * 2^e, ln x = ln m + e * ln 2.            *)
RECURSIVE LnPositive(_, _)
LnPositive(x, e) ==
    IF x >= 2 * D_SCALE THEN LnPositive(RDiv(x, 2), e + 1)
    ELSE IF x < D_SCALE THEN LnPositive(2 * x, e - 1)
    ELSE LnMantissa(x) + e * LN_2

(* np.log: nan below 0, -inf at 0.                                         *)
NpLog(x) ==
    IF x < 0 THEN NaN ELSE IF x = 0 THEN Inf(-1) ELSE Fin(LnPositive(x, 0))

(* Line 85: np.log(1.0 / (1.0 - D)); D = 1 is a ZeroDivisionError, which   *)
(* the callers test first.                                                 *)
LogTerm(d) == NpLog(RDiv(D_SCALE * D_SCALE, D_SCALE - d))

(* Line 86 with the difference reversed: (A0 - log_term) / K.              *)
Pressure_Reversed(lt, a0, k) ==
    IF ~IsFin(lt) THEN lt
    ELSE IF k = 0
         THEN (IF a0 - lt[2] = 0 THEN NaN ELSE Inf(Sgn(a0 - lt[2])))
         ELSE Fin(Sgn(k) * MulDiv(a0 - lt[2],
                                  (K_SCALE * P_SCALE) \div D_SCALE, Abs(k)))

(* Line 86: (log_term - A0) / K in numpy doubles: x/0 is +-inf, 0/0 and    *)
(* nan/K are nan.                                                          *)
Pressure(lt, a0, k) ==
    IF ~IsFin(lt) THEN lt
    ELSE IF k = 0
         THEN (IF lt[2] - a0 = 0 THEN NaN ELSE Inf(Sgn(lt[2] - a0)))
         ELSE Fin(Sgn(k) * MulDiv(lt[2] - a0,
                                  (K_SCALE * P_SCALE) \div D_SCALE, Abs(k)))

(* Line 87: (np.pi / 4.0) * ((outer_d_mm**2 - inner_d_mm**2) * 1e-6).      *)
Area(outer, inner) ==
    RDiv(PI_4 * ((outer * outer - inner * inner) * AREA_PER_MM2), D_SCALE)

(* Line 88: P_MPa * MPA_TO_PA * area_m2.                                   *)
Force(p, area) == FloatMulDiv(p, area, FORCE_QUANTA \div MPA_TO_PA)

(* Line 89: F_N / N_PER_TONF.                                              *)
TonsNoSF(f) == FloatMulDiv(f, TONS_SCALE, N_PER_TONF)

(* Line 90 adding the margin instead of scaling by it: tons * (1 + SF).    *)
TonsWithSF_Added(t, sf) == FloatMulDiv(t, SAFETY_SCALE + sf, SAFETY_SCALE)

(* Line 90: tons_no_SF * SF.                                               *)
TonsWithSF(t, sf) == FloatMulDiv(t, sf, SAFETY_SCALE)

----------------------------------------------------------------------------
(* The curves of lines 112-114.                                            *)

(* np.linspace(start, stop, num): start + i*step, the last sample set to   *)
(* stop.                                                                   *)
Linspace(start, stop, num) ==
    LET step == RDiv(stop - start, num - 1)
    IN  [i \in 1..num |-> IF i = num THEN stop ELSE start + (i - 1) * step]

(* Line 112.                                                               *)
D_vals == Linspace(CURVE_START, CURVE_STOP, N_POINTS)

(* Line 113, its inner term np.log(1.0 / (1.0 - D_vals)).                  *)
LogOfD_vals ==
    [i \in 1..N_POINTS |->
        NpLog(RDiv(D_SCALE * D_SCALE, D_SCALE - D_vals[i]))]

(* Line 113: (np.log(1.0 / (1.0 - D_vals)) - A0) / K, element by element.  *)
CurveP(a0, k) ==
    [i \in 1..N_POINTS |->
        LET num == LogOfD_vals[i][2] - a0
        IN  IF k = 0 THEN (IF num = 0 THEN NaN ELSE Inf(Sgn(num)))
            ELSE Fin(Sgn(k) * MulDiv(num, (K_SCALE * P_SCALE) \div D_SCALE,
                                     Abs(k)))]

(* Line 114 without its safety factor.                                     *)
CurveT_NoSF(pv, area, sf) ==
    [i \in 1..Len(pv) |->
        FloatMulDiv(FloatMulDiv(pv[i], area, FORCE_QUANTA \div MPA_TO_PA),
                    TONS_SCALE, N_PER_TONF)]

(* Line 114: (P_vals * MPA_TO_PA * area_m2 / N_PER_TONF) * SF.             *)
CurveT(pv, area, sf) ==
    [i \in 1..Len(pv) |->
        FloatMulDiv(
            FloatMulDiv(
                FloatMulDiv(pv[i], area, FORCE_QUANTA \div MPA_TO_PA),
                TONS_SCALE, N_PER_TONF),
            sf, SAFETY_SCALE)]

(* Lines 130-141: the rows of the CSV export.                              *)
CsvRows(mat, k, a0, rth, d, outer, inner, p, f, tw) ==
    << <<"Material", mat>>,
       <<"K (MPa^-1)", k>>,
       <<"A0", a0>>,
       <<"rho_th (kg/m3)", rth>>,
       <<"Relative density D", d>>,
       <<"Outer diameter (mm)", outer>>,
       <<"Inner diameter (mm)", inner>>,
       <<"Pressure (MPa)", p>>,
       <<"Force (N)", f>>,
       <<"Tons (with SF)", tw>> >>

----------------------------------------------------------------------------
(* What the user enters.                                                   *)

MaxDSteps == 1

Materials == DOMAIN DEFAULT_MATERIALS
K_Inputs == {0}
(* An A0 equal to ln(1/(1-D)) at the default relative density.             *)
A0_Inputs == {LogTerm(D_DEFAULT)[2]}
rho_th_Inputs == {0, 10000}
outer_Inputs == {0, 5, 10}
inner_Inputs == {-1, 5, 12}
rho_green_Inputs == {0, 4273, 5200, 10000}
D_Inputs == {0, D_SCALE, 5430} \cup {5000 + 1500 * i : i \in 0..MaxDSteps}
Safety_Inputs == {100, 300, 350}

(* The curves depend on A0, K, area_m2 and SF alone.  They are tabulated   *)
(* once over the values those take, so that a run looks them up.           *)
A0_Values == {A0_default(m) : m \in Materials} \cup A0_Inputs
K_Values == {K_default(m) : m \in Materials} \cup K_Inputs
Area_Values ==
    {Area(o, i) : o \in {v \in outer_Inputs \cup {OUTER_DEFAULT} :
                             10 * v >= OUTER_MIN_TENTHS},
                  i \in {v \in inner_Inputs \cup {INNER_DEFAULT, 0} :
                             v >= INNER_MIN}}
Safety_Values == Safety_Inputs \cup {SAFETY_DEFAULT}

P_valsTable == [a0 \in A0_Values, k \in K_Values |-> CurveP(a0, k)]
T_valsTable ==
    [a0 \in A0_Values, k \in K_Values, ar \in Area_Values, sf \in Safety_Values |->
        CurveT(P_valsTable[a0, k], ar, sf)]

----------------------------------------------------------------------------
(* One run of the script over the widget values just set.                  *)

Rerun ==
    LET inner == InnerUsed(shape', inner_widget')
    IN
    IF \/ dens_type' = GREEN /\ rho_theoretical' = 0      \* line 76
       \/ ResolveD(dens_type', rho_green', rho_theoretical', D_widget')
              = D_SCALE                                    \* line 85
    THEN /\ error' = "ZeroDivisionError"
         /\ inner_d_mm' = NoValue
         /\ D' = NoValue
         /\ P_MPa' = NoValue
         /\ area_m2' = NoValue
         /\ F_N' = NoValue
         /\ tons_no_SF' = NoValue
         /\ tons_with_SF' = NoValue
         /\ P_vals' = <<>>
         /\ T_vals' = <<>>
         /\ csv_data' = <<>>
    ELSE /\ error' = "none"
         /\ inner_d_mm' = Fin(inner)
         /\ D' = Fin(ResolveD(dens_type', rho_green', rho_theoretical',
                              D_widget'))
         /\ P_MPa' = Pressure(LogTerm(D'[2]), A0', K')
         /\ area_m2' = Fin(Area(outer_d_mm', inner))
         /\ F_N' = Force(P_MPa', area_m2'[2])
         /\ tons_no_SF' = TonsNoSF(F_N')
         /\ tons_with_SF' = TonsWithSF(tons_no_SF', SF')
         /\ P_vals' = P_valsTable[A0', K']
         /\ T_vals' = T_valsTable[A0', K', area_m2'[2], SF']
         /\ csv_data' = CsvRows(material_choice', Fin(K'), Fin(A0'),
                                Fin(rho_theoretical'), D', Fin(outer_d_mm'),
                                inner_d_mm', P_MPa', F_N', tons_with_SF')

(* Line 80 without max_value.                                              *)
SFAccepted_NoMax(v) == v >= SAFETY_MIN

(* Whether the safety-factor widget takes v (min_value, max_value).        *)
SFAccepted(v) == v >= SAFETY_MIN /\ v <= SAFETY_MAX

Init ==
    /\ material_choice = WC
    /\ K = K_default(WC)
    /\ A0 = A0_default(WC)
    /\ rho_theoretical = rho_th_default(WC)
    /\ shape = SOLID
    /\ outer_d_mm = OUTER_DEFAULT
    /\ inner_widget = INNER_DEFAULT
    /\ dens_type = GREEN
    /\ rho_green = RHO_GREEN_DEFAULT
    /\ D_widget = D_DEFAULT
    /\ SF = SAFETY_DEFAULT
    /\ error = "none"
    /\ inner_d_mm = Fin(0)
    /\ D = Fin(RDiv(RHO_GREEN_DEFAULT * D_SCALE, rho_th_default(WC)))
    /\ P_MPa = Pressure(LogTerm(D[2]), A0, K)
    /\ area_m2 = Fin(Area(OUTER_DEFAULT, 0))
    /\ F_N = Force(P_MPa, area_m2[2])
    /\ tons_no_SF = TonsNoSF(F_N)
    /\ tons_with_SF = TonsWithSF(tons_no_SF, SF)
    /\ P_vals = P_valsTable[A0, K]
    /\ T_vals = T_valsTable[A0, K, area_m2[2], SF]
    /\ csv_data = CsvRows(material_choice, Fin(K), Fin(A0),
                          Fin(rho_theoretical), D, Fin(outer_d_mm),
                          inner_d_mm, P_MPa, F_N, tons_with_SF)

(* Lines 46-55: another material; the three number inputs are created with *)
(* a new default value, so they start from it.                             *)
SelectMaterial(m) ==
    /\ m # material_choice
    /\ material_choice' = m
    /\ K' = K_default(m)
    /\ A0' = A0_default(m)
    /\ rho_theoretical' = rho_th_default(m)
    /\ UNCHANGED <<shape, outer_d_mm, inner_widget, dens_type, rho_green,
                   D_widget, SF>>
    /\ Rerun

(* Line 53: K has no min_value and no max_value.                           *)
SetK(v) ==
    /\ v # K
    /\ K' = v
    /\ UNCHANGED <<material_choice, A0, rho_theoretical, shape, outer_d_mm,
                   inner_widget, dens_type, rho_green, D_widget, SF>>
    /\ Rerun

(* Line 54 with the results of the earlier run kept (a cached run).        *)
SetA0_Cached(v) ==
    /\ v # A0
    /\ A0' = v
    /\ UNCHANGED <<material_choice, K, rho_theoretical, shape, outer_d_mm,
                   inner_widget, dens_type, rho_green, D_widget, SF>>
    /\ UNCHANGED outputs

(* Line 54.                                                                *)
SetA0(v) ==
    /\ v # A0
    /\ A0' = v
    /\ UNCHANGED <<material_choice, K, rho_theoretical, shape, outer_d_mm,
                   inner_widget, dens_type, rho_green, D_widget, SF>>
    /\ Rerun

(* Line 55: rho_th has no min_value.                                       *)
SetRhoTheoretical(v) ==
    /\ v # rho_theoretical
    /\ rho_theoretical' = v
    /\ UNCHANGED <<material_choice, K, A0, shape, outer_d_mm, inner_widget,
                   dens_type, rho_green, D_widget, SF>>
    /\ Rerun

(* Lines 68, 70: the inner-diameter input exists only while the part is    *)
(* hollow; when it appears it holds its default.                           *)
SelectShape(s) ==
    /\ s # shape
    /\ shape' = s
    /\ inner_widget' = INNER_DEFAULT
    /\ UNCHANGED <<material_choice, K, A0, rho_theoretical, outer_d_mm,
                   dens_type, rho_green, D_widget, SF>>
    /\ Rerun

(* Line 69: min_value=0.1.                                                 *)
SetOuterDiameter(v) ==
    /\ v # outer_d_mm
    /\ 10 * v >= OUTER_MIN_TENTHS
    /\ outer_d_mm' = v
    /\ UNCHANGED <<material_choice, K, A0, rho_theoretical, shape,
                   inner_widget, dens_type, rho_green, D_widget, SF>>
    /\ Rerun

(* Line 70: min_value=0.0, no max_value.                                   *)
SetInnerDiameter(v) ==
    /\ shape = HOLLOW
    /\ v # inner_widget
    /\ v >= INNER_MIN
    /\ inner_widget' = v
    /\ UNCHANGED <<material_choice, K, A0, rho_theoretical, shape,
                   outer_d_mm, dens_type, rho_green, D_widget, SF>>
    /\ Rerun

(* Lines 73-78: only the chosen density input exists; when it appears it   *)
(* holds its default.                                                      *)
SelectDensityInput(t) ==
    /\ t # dens_type
    /\ dens_type' = t
    /\ rho_green' = RHO_GREEN_DEFAULT
    /\ D_widget' = D_DEFAULT
    /\ UNCHANGED <<material_choice, K, A0, rho_theoretical, shape,
                   outer_d_mm, inner_widget, SF>>
    /\ Rerun

(* Line 75: min_value=1.0.                                                 *)
SetRhoGreen(v) ==
    /\ dens_type = GREEN
    /\ v # rho_green
    /\ v >= RHO_GREEN_MIN
    /\ rho_green' = v
    /\ UNCHANGED <<material_choice, K, A0, rho_theoretical, shape,
                   outer_d_mm, inner_widget, dens_type, D_widget, SF>>
    /\ Rerun

(* Line 78: min_value=0.01, max_value=0.999.                               *)
SetRelativeDensity(v) ==
    /\ dens_type = RELATIVE
    /\ v # D_widget
    /\ v >= D_WIDGET_MIN /\ v <= D_WIDGET_MAX
    /\ D_widget' = v
    /\ UNCHANGED <<material_choice, K, A0, rho_theoretical, shape,
                   outer_d_mm, inner_widget, dens_type, rho_green, SF>>
    /\ Rerun

(* Line 80: min_value=1.0, max_value=3.0.                                  *)
SetSafetyFactor(v) ==
    /\ v # SF
    /\ SFAccepted(v)
    /\ SF' = v
    /\ UNCHANGED <<material_choice, K, A0, rho_theoretical, shape,
                   outer_d_mm, inner_widget, dens_type, rho_green, D_widget>>
    /\ Rerun

Next ==
    \/ \E m \in Materials : SelectMaterial(m)
    \/ \E v \in K_Inputs \cup {K_default(material_choice)} : SetK(v)
    \/ \E v \in A0_Inputs \cup {A0_default(material_choice)} : SetA0(v)
    \/ \E v \in rho_th_Inputs \cup {rho_th_default(material_choice)} :
          SetRhoTheoretical(v)
    \/ \E s \in {SOLID, HOLLOW} : SelectShape(s)
    \/ \E v \in outer_Inputs : SetOuterDiameter(v)
    \/ \E v \in inner_Inputs : SetInnerDiameter(v)
    \/ \E t \in {GREEN, RELATIVE} : SelectDensityInput(t)
    \/ \E v \in rho_green_Inputs : SetRhoGreen(v)
    \/ \E v \in D_Inputs \cup {D_DEFAULT} : SetRelativeDensity(v)
    \/ \E v \in Safety_Inputs \cup {SAFETY_DEFAULT} : SetSafetyFactor(v)

Spec == Init /\ [][Next]_vars

----------------------------------------------------------------------------
(* Properties.                                                             *)

(* The run produced its results (no exception ended it).                   *)
Produced == error = "none"

(* The request is one the specification calls valid.                       *)
ValidRequest ==
    /\ Produced
    /\ D[2] > 0 /\ D[2] < D_SCALE
    /\ K > 0
    /\ rho_theoretical > 0
    /\ outer_d_mm > inner_d_mm[2] /\ inner_d_mm[2] >= 0
    /\ SF >= SAFETY_MIN /\ SF <= SAFETY_MAX

(* C1: whenever a result is produced, the resolved relative density lies   *)
(* strictly inside (0, 1); a D outside it fails before any pressure, force *)
(* or tonnage is produced.                                                 *)
C1_DensityOutsideUnitIntervalRejected ==
    Produced => (D[2] > 0 /\ D[2] < D_SCALE)

(* C2: a result is only ever produced with K # 0.                          *)
C2_ZeroKRejected == Produced => K # 0

(* C3: every produced result has outer_diameter_mm > inner_diameter_mm >=  *)
(* 0 and area_m2 >= 0; a hollow part with inner >= outer produces none.    *)
C3_InnerNotBelowOuterRejected ==
    Produced =>
        /\ outer_d_mm > inner_d_mm[2]
        /\ inner_d_mm[2] >= 0
        /\ area_m2[2] >= 0

C5_EqualIffUnitSafetyFactor ==
    ValidRequest =>
        (FloatEq(tons_with_SF, tons_no_SF) <=> SF = SAFETY_SCALE)

(* C5 amended: tons_with_sf is tons_no_sf * safety_factor; for a finite    *)
(* non-zero tons_no_sf the two are equal exactly when the safety factor is *)
(* 1.0; a zero or infinite tons_no_sf equals tons_with_sf for every safety *)
(* factor, and a NaN one never does.                                       *)
C5_TonnageLinearInSafetyFactor ==
    Produced =>
        /\ IsFin(tons_no_SF) =>
               tons_with_SF = Fin(MulDiv(tons_no_SF[2], SF, SAFETY_SCALE))
        /\ IsInf(tons_no_SF) => tons_with_SF = tons_no_SF
        /\ IsNaN(tons_no_SF) => IsNaN(tons_with_SF)
        /\ (IsFin(tons_no_SF) /\ tons_no_SF[2] # 0) =>
               (FloatEq(tons_with_SF, tons_no_SF) <=> SF = SAFETY_SCALE)
        /\ (IsInf(tons_no_SF) \/ tons_no_SF = Fin(0)) =>
               FloatEq(tons_with_SF, tons_no_SF)
        /\ IsNaN(tons_no_SF) => ~FloatEq(tons_with_SF, tons_no_SF)

(* A valid request whose pressure, and so tonnage, is exactly 0, with a    *)
(* safety factor other than 1.0.                                           *)
C5_Witness ==
    /\ ValidRequest
    /\ tons_no_SF = Fin(0)
    /\ tons_with_SF = Fin(0)
    /\ SF # SAFETY_SCALE

(* C6: the curve has at most 300 samples, its D values strictly increase,  *)
(* and each sample's pressure and tonnage are what the single-point        *)
(* computation of lines 85-90 gives for that D with the same K, A0, area   *)
(* and safety factor.                                                      *)
C6_CurveMatchesSinglePoint ==
    Produced =>
        /\ Len(D_vals) <= N_POINTS
        /\ Len(P_vals) = Len(D_vals)
        /\ Len(T_vals) = Len(D_vals)
        /\ \A i \in 1..(Len(D_vals) - 1) : D_vals[i] < D_vals[i + 1]
        /\ \A i \in 1..Len(D_vals) :
              /\ P_vals[i] = Pressure(LogTerm(D_vals[i]), A0, K)
              /\ T_vals[i] =
                     TonsWithSF(TonsNoSF(Force(P_vals[i], area_m2[2])), SF)

(* A curve of 300 finite samples, drawn for a hollow part of positive area *)
(* with the largest safety factor, after the material was changed.         *)
C6_Witness ==
    /\ Produced
    /\ Len(P_vals) = N_POINTS
    /\ K > 0 /\ area_m2[2] > 0 /\ SF = SAFETY_MAX
    /\ shape = HOLLOW /\ material_choice # WC
    /\ IsFin(T_vals[N_POINTS]) /\ T_vals[N_POINTS][2] > 0

(* The area of a solid part, from its outer diameter alone.                *)
SolidArea(outer) == RDiv(PI_4 * (outer * outer * AREA_PER_MM2), D_SCALE)

(* C7 as stated: a solid part is computed with inner diameter 0 and area   *)
(* (pi/4) * outer^2 * 1e-6, and the hollow part outer = 10, inner = 5 has  *)
(* exactly 75% of the solid area.                                          *)
C7_SolidInnerZeroHollowExactly75 ==
    /\ (Produced /\ shape = SOLID) =>
           (inner_d_mm = Fin(0) /\ area_m2 = Fin(SolidArea(outer_d_mm)))
    /\ (Produced /\ shape = HOLLOW /\ outer_d_mm = 10 /\ inner_d_mm = Fin(5))
           => 100 * area_m2[2] = 75 * SolidArea(10)

(* C7 amended: a solid part is computed with inner diameter 0 and area     *)
(* (pi/4) * outer^2 * 1e-6, and the hollow part outer = 10, inner = 5 has  *)
(* 75% of the solid area to within the rounding of the last place.         *)
C7_SolidInnerZeroHollow75Rounded ==
    /\ (Produced /\ shape = SOLID) =>
           (inner_d_mm = Fin(0) /\ area_m2 = Fin(SolidArea(outer_d_mm)))
    /\ (Produced /\ shape = HOLLOW /\ outer_d_mm = 10 /\ inner_d_mm = Fin(5))
           => Abs(100 * area_m2[2] - 75 * SolidArea(10)) < 100

(* A solid part computed while the inner-diameter widget holds a non-zero  *)
(* value, with an outer diameter other than the default.                   *)
C7_Witness ==
    /\ Produced
    /\ shape = SOLID
    /\ inner_widget # 0
    /\ outer_d_mm # OUTER_DEFAULT
    /\ inner_d_mm = Fin(0)

(* The relative densities a request of the model can resolve to.           *)
ResolvableD ==
    {d \in {RDiv(g * D_SCALE, r) :
                g \in {v \in rho_green_Inputs : v >= RHO_GREEN_MIN},
                r \in {rho_th_default(m) : m \in Materials}
                         \cup (rho_th_Inputs \ {0})}
           \cup {v \in D_Inputs : v >= D_WIDGET_MIN /\ v <= D_WIDGET_MAX}
           \cup {D_vals[1], D_vals[N_POINTS]} :
        d > 0 /\ d < D_SCALE}

RelativeInputs ==
    {v \in D_Inputs \cup {D_DEFAULT} : v >= D_WIDGET_MIN /\ v <= D_WIDGET_MAX}

(* C9 as stated: a green density equal to d * rho_theoretical (the nearest *)
(* green density there is), with rho_theoretical > 0 and d in (0, 1),      *)
(* resolves to the D that the relative density d resolves to, and gives    *)
(* the pressure, force and tonnage that d gives.                           *)
C9_DensityRoundTripSame ==
    (Produced /\ dens_type = GREEN /\ rho_theoretical > 0) =>
        \A d \in RelativeInputs :
            rho_green = RDiv(d * rho_theoretical, D_SCALE) =>
                LET dRel == ResolveD(RELATIVE, rho_green, rho_theoretical, d)
                    p == Pressure(LogTerm(dRel), A0, K)
                    f == Force(p, area_m2[2])
                IN  /\ D = Fin(dRel)
                    /\ P_MPa = p
                    /\ F_N = f
                    /\ tons_with_SF = TonsWithSF(TonsNoSF(f), SF)

(* C9 amended: such a green density resolves to the D of the relative      *)
(* density d to within the rounding of the last place; when the green      *)
(* density is d * rho_theoretical exactly, it resolves to the same D and   *)
(* gives the same pressure, force and tonnage.                             *)
C9_DensityRoundTripRounded ==
    (Produced /\ dens_type = GREEN /\ rho_theoretical > 0) =>
        /\ \A d \in RelativeInputs :
               rho_green = RDiv(d * rho_theoretical, D_SCALE) =>
                   Abs(D[2] - ResolveD(RELATIVE, rho_green, rho_theoretical, d))
                       <= 1
        /\ ((rho_green * D_SCALE) % rho_theoretical = 0
            /\ (rho_green * D_SCALE) \div rho_theoretical \in 1..(D_SCALE - 1))
           =>
           LET d == (rho_green * D_SCALE) \div rho_theoretical
               dRel == ResolveD(RELATIVE, rho_green, rho_theoretical, d)
               p == Pressure(LogTerm(dRel), A0, K)
               f == Force(p, area_m2[2])
           IN  /\ dRel = d
               /\ D = Fin(dRel)
               /\ P_MPa = p
               /\ F_N = f
               /\ tons_no_SF = TonsNoSF(f)
               /\ tons_with_SF = TonsWithSF(TonsNoSF(f), SF)

(* A green density that is the nearest to d * rho_theoretical for a        *)
(* relative density d the widget takes, resolved to a D one place off d.   *)
C9_Witness ==
    /\ Produced /\ dens_type = GREEN /\ rho_theoretical > 0
    /\ IsFin(P_MPa)
    /\ \E d \in RelativeInputs :
          /\ rho_green = RDiv(d * rho_theoretical, D_SCALE)
          /\ D[2] # d
          /\ Abs(D[2] - d) <= 1

(* C10: the export holds exactly the ten fields material, K, A0, rho_th,   *)
(* D, outer diameter, inner diameter, pressure, force and tonnage with     *)
(* safety factor, each the value of the current inputs or of the result    *)
(* computed from the current inputs; a run that fails exports nothing.     *)
C10_ExportMatchesCurrentRequest ==
    /\ ~Produced => csv_data = <<>>
    /\ Produced =>
        LET d == ResolveD(dens_type, rho_green, rho_theoretical, D_widget)
            inner == IF shape = HOLLOW THEN inner_widget ELSE 0
            p == Pressure(LogTerm(d), A0, K)
            f == Force(p, Area(outer_d_mm, inner))
            tw == TonsWithSF(TonsNoSF(f), SF)
        IN  /\ Len(csv_data) = 10
            /\ csv_data[1] = <<"Material", material_choice>>
            /\ csv_data[2] = <<"K (MPa^-1)", Fin(K)>>
            /\ csv_data[3] = <<"A0", Fin(A0)>>
            /\ csv_data[4] = <<"rho_th (kg/m3)", Fin(rho_theoretical)>>
            /\ csv_data[5] = <<"Relative density D", Fin(d)>>
            /\ csv_data[6] = <<"Outer diameter (mm)", Fin(outer_d_mm)>>
            /\ csv_data[7] = <<"Inner diameter (mm)", Fin(inner)>>
            /\ csv_data[8] = <<"Pressure (MPa)", p>>
            /\ csv_data[9] = <<"Force (N)", f>>
            /\ csv_data[10] = <<"Tons (with SF)", tw>>
            /\ csv_data[5][2] = D
            /\ csv_data[8][2] = P_MPa
            /\ csv_data[9][2] = F_N
            /\ csv_data[10][2] = tons_with_SF

(* An export made after the material, A0 and the geometry were changed.    *)
C10_Witness ==
    /\ Produced
    /\ material_choice # WC
    /\ A0 # A0_default(material_choice)
    /\ shape = HOLLOW
    /\ Len(csv_data) = 10
    /\ IsFin(csv_data[10][2])

=============================================================================
